---- MODULE Spec2Model ----
(***************************************************************************)
(* Book Library API: the Book/Author store, the books router with its      *)
(* authentication gate and request validators, and the two versions of    *)
(* the books controller (the one that adjusts Author.bookCount and the     *)
(* plain one).  Every await of a handler is one step, so that requests of  *)
(* two clients can interleave the way the event loop lets them.            *)
(*                                                                         *)
(* Strings that the code inspects character by character (ISBN, title,     *)
(* publisher, language, coverImageUrl) are tuples of one-character         *)
(* strings.  A request field that may be missing is <<>> when missing and  *)
(* <<v>> when present.  The description field (length <= 1000 in both the  *)
(* validator and the schema) is left out of the documents.  A request may  *)
(* name one awaited database call that the database rejects; the handler's *)
(* catch block then answers.                                               *)
(***************************************************************************)
EXTENDS Integers, Sequences, FiniteSets, TLC

VARIABLES books, authors, clock, issued, env, reqs, sessions, lastAuth

vars == <<books, authors, clock, issued, env, reqs, sessions, lastAuth>>

----------------------------------------------------------------------------
(* Bounds of the model *)

\* requests issued in one run
MaxRequests == 2

\* requests issued in one run of the session workload
MaxSessionRequests == 3

\* program constants
IsbnShort == 10
IsbnLong == 13
MinTitle == 2
MinYear == 1000
ThisYear == 2026
MinPages == 1
MinCopies == 0
DefaultPage == 1
DefaultLimit == 10

----------------------------------------------------------------------------
(* Optional values and strings *)

None == <<>>
Some(v) == <<v>>
IsSome(o) == o # <<>>
Val(o) == o[1]

Digits == {"0", "1", "2", "3", "4", "5", "6", "7", "8", "9"}
Blank == {" ", "\t", "\n"}

\* s.startsWith(p)
StartsWith(s, p) == Len(s) >= Len(p) /\ SubSeq(s, 1, Len(p)) = p

RECURSIVE TrimLeft(_)
TrimLeft(s) == IF s # <<>> /\ Head(s) \in Blank THEN TrimLeft(Tail(s)) ELSE s

RECURSIVE TrimRight(_)
TrimRight(s) ==
    IF s # <<>> /\ s[Len(s)] \in Blank THEN TrimRight(SubSeq(s, 1, Len(s) - 1)) ELSE s

\* String.prototype.trim, as the trim() sanitizer and the schema's trim setter use it
Trim(s) == TrimRight(TrimLeft(s))

\* isbn.replace(/[-\s]/g, '')
IsHyphenOrSpace(c) == c = "-" \/ c \in Blank
StripIsbn(s) == SelectSeq(s, LAMBDA c : ~IsHyphenOrSpace(c))

\* /^\d{10}(\d{3})?$/
MatchesIsbn(s) == Len(s) \in {IsbnShort, IsbnLong} /\ \A i \in 1..Len(s) : s[i] \in Digits

\* /^https?:\/\/.+/
Http == <<"h", "t", "t", "p", ":", "/", "/">>
Https == <<"h", "t", "t", "p", "s", ":", "/", "/">>
MatchesUrl(s) ==
    \/ StartsWith(s, Http) /\ Len(s) > Len(Http)
    \/ StartsWith(s, Https) /\ Len(s) > Len(Https)

\* the characters the model's strings are made of, in code point order
Ascii == <<" ", "(", "-", ".",
           "0", "1", "2", "3", "4", "5", "6", "7", "8", "9",
           "A", "B", "C", "D", "E", "F", "G", "H", "I", "J", "K", "L", "M",
           "N", "O", "P", "Q", "R", "S", "T", "U", "V", "W", "X", "Y", "Z",
           "a", "b", "c", "d", "e", "f", "g", "h", "i", "j", "k", "l", "m",
           "n", "o", "p", "q", "r", "s", "t", "u", "v", "w", "x", "y", "z">>

Code(ch) == CHOOSE i \in 1..Len(Ascii) : Ascii[i] = ch

\* the comparison a sort on a string path makes: by code point, a prefix first
RECURSIVE Before(_, _)
Before(s, t) ==
    IF s = <<>> THEN t # <<>>
    ELSE IF t = <<>> THEN FALSE
    ELSE IF Head(s) = Head(t) THEN Before(Tail(s), Tail(t))
    ELSE Code(Head(s)) < Code(Head(t))

\* the case folding of the regular expression option 'i'
Fold(ch) == IF Code(ch) >= Code("A") /\ Code(ch) <= Code("Z")
            THEN Ascii[Code(ch) + Code("a") - Code("A")] ELSE ch

\* a pattern the regular expression engine rejects: an opening parenthesis that
\* is never closed
RegexThrows(q) == \E i \in 1..Len(q) : q[i] = "("

\* {$regex: q, $options: 'i'} on the string s, for patterns made of literal
\* characters and '.', which stands for any character
RegexTest(q, s) ==
    \E k \in 0..(Len(s) - Len(q)) :
        \A i \in 1..Len(q) : q[i] = "." \/ Fold(q[i]) = Fold(s[k + i])

Genres == {"Fiction", "Non-Fiction", "Science Fiction", "Fantasy", "Mystery",
           "Biography", "History", "Self-Help", "Other"}

----------------------------------------------------------------------------
(* Identifiers *)

\* strings that are 24 hexadecimal characters in the program: isMongoId accepts
\* them and the ObjectId cast of a query or a document succeeds on them
ObjectIds == {"a1", "a2", "a3", "b1", "b2", "b3", "b4", "b5", "b6", "b7", "b9", "u1"}

\* param('id').isMongoId(), body('author').isMongoId()
IsMongoId(x) == x \in ObjectIds

\* the cast Mongoose applies to an id before it queries; a CastError otherwise
CastsToObjectId(x) == x \in ObjectIds

\* the _id a new document gets: never one that was used before
FreshIds == <<"b3", "b4", "b5", "b6", "b7">>
NewBookId(n) == FreshIds[n + 1]

----------------------------------------------------------------------------
(* Request bodies: every field is <<>> (missing) or <<value>> *)

BodyFields == {"title", "author", "user", "isbn", "genre", "publicationYear",
               "publisher", "pageCount", "language", "coverImageUrl", "availableCopies"}

\* notEmpty(): the field is there and is not the empty string
NotEmpty(o) == IsSome(o) /\ Val(o) # <<>>

\* isInt({min, max}) on a field holding an integer
IsIntBetween(o, lo, hi) == IsSome(o) /\ Val(o) >= lo /\ Val(o) <= hi
IsIntAtLeast(o, lo) == IsSome(o) /\ Val(o) >= lo

\* the custom validator of coverImageUrl
CoverImageUrlAllowed(v) ==
    \/ v = <<>>
    \/ StartsWith(v, <<"/">>)
    \/ StartsWith(v, Http)
    \/ StartsWith(v, Https)

\* validateBook: the fields for which a validator records an error
ValidateBookErrors(b) ==
    {f \in BodyFields :
        \/ f = "title" /\ ~(NotEmpty(b.title) /\ Len(Trim(Val(b.title))) >= MinTitle)
        \/ f = "author" /\ ~(IsSome(b.author) /\ IsMongoId(Val(b.author)))
        \/ f = "isbn" /\ ~(NotEmpty(b.isbn) /\ MatchesIsbn(Val(b.isbn)))
        \/ f = "genre" /\ ~(IsSome(b.genre) /\ Val(b.genre) \in Genres)
        \/ f = "publicationYear" /\ ~IsIntBetween(b.publicationYear, MinYear, ThisYear)
        \/ f = "publisher" /\ ~NotEmpty(b.publisher)
        \/ f = "pageCount" /\ ~IsIntAtLeast(b.pageCount, MinPages)
        \/ f = "coverImageUrl" /\ IsSome(b.coverImageUrl)
                               /\ ~CoverImageUrlAllowed(Val(b.coverImageUrl))
        \/ f = "availableCopies" /\ ~IsIntAtLeast(b.availableCopies, MinCopies)}

TrimField(o) == IF IsSome(o) THEN Some(Trim(Val(o))) ELSE o

\* the trim() sanitizers of validateBook write the trimmed value back to req.body
SanitizeBook(b) ==
    [b EXCEPT !.title = TrimField(b.title),
              !.publisher = TrimField(b.publisher),
              !.language = TrimField(b.language)]

\* validateObjectId
ValidateObjectIdErrors(id) == IF IsMongoId(id) THEN {} ELSE {"id"}

----------------------------------------------------------------------------
(* The Book schema *)

English == <<"E", "n", "g", "l", "i", "s", "h">>
DefaultCopies == 1

\* the user path is required only when authentication is switched on
UserRequired(e) == e.requireAuth = "true"

\* The validators of one path, on the value an insert or an update gives it.
\* A required string fails on the empty string; match lets the empty string pass.
PathInvalid(f, o, e) ==
    CASE f = "title" -> ~NotEmpty(o) \/ Len(Val(o)) < MinTitle
      [] f = "author" -> ~IsSome(o) \/ ~CastsToObjectId(Val(o))
      [] f = "user" -> (UserRequired(e) /\ ~IsSome(o))
                         \/ (IsSome(o) /\ ~CastsToObjectId(Val(o)))
      [] f = "isbn" -> ~NotEmpty(o) \/ ~MatchesIsbn(Val(o))
      [] f = "genre" -> ~IsSome(o) \/ Val(o) \notin Genres
      [] f = "publicationYear" -> ~IsSome(o) \/ Val(o) < MinYear \/ Val(o) > ThisYear
      [] f = "publisher" -> ~NotEmpty(o)
      [] f = "pageCount" -> ~IsSome(o) \/ Val(o) < MinPages
      [] f = "language" -> ~NotEmpty(o)
      [] f = "coverImageUrl" -> IsSome(o) /\ Val(o) # <<>> /\ ~MatchesUrl(Val(o))
      [] f = "availableCopies" -> ~IsSome(o) \/ Val(o) < MinCopies

\* new Book(body): setters and defaults applied (title and publisher are trimmed,
\* language and availableCopies have defaults, user defaults to null)
NewBook(b) ==
    [b EXCEPT !.title = TrimField(b.title),
              !.publisher = TrimField(b.publisher),
              !.language = IF IsSome(b.language) THEN b.language ELSE Some(English),
              !.availableCopies = IF IsSome(b.availableCopies) THEN b.availableCopies
                                  ELSE Some(DefaultCopies)]

\* validation before save: the paths of the new document that fail
CreateErrors(b, e) == {f \in BodyFields : PathInvalid(f, NewBook(b)[f], e)}

\* the $set an update casts from the body: setters run, no defaults
UpdateSet(b) ==
    [b EXCEPT !.title = TrimField(b.title), !.publisher = TrimField(b.publisher)]

\* update validators (runValidators: true) look only at the paths being set
UpdateErrors(b, e) ==
    {f \in BodyFields : IsSome(b[f]) /\ PathInvalid(f, UpdateSet(b)[f], e)}

----------------------------------------------------------------------------
(* The Author schema and the store *)

\* the paths authorSchema declares (timestamps: true adds updatedAt)
AuthorSchemaPaths == {"firstName", "lastName", "nationality", "birthDate", "deathDate",
                      "biography", "website", "genres", "awards", "createdAt", "updatedAt"}

\* $inc of a number field: a field that is not there counts from 0.
\* bookCount is {} when the document has no such field and {n} when it holds n.
IncField(v, d) == IF v = {} THEN {d} ELSE {n + d : n \in v}

\* the same update under a schema that declares bookCount
IncBookCountDeclared(a, d) == [a EXCEPT !.bookCount = IncField(a.bookCount, d)]

\* Author.findByIdAndUpdate(id, {$inc: {bookCount: d}}) on the document a: the
\* schema is strict, so an update of a path it does not declare is dropped
IncBookCount(a, d) ==
    IF "bookCount" \in AuthorSchemaPaths
    THEN [a EXCEPT !.bookCount = IncField(a.bookCount, d)]
    ELSE a

\* the same update through the collection: no document with that id, no change
IncAuthor(as, id, d) ==
    IF id \in DOMAIN as THEN [as EXCEPT ![id] = IncBookCount(as[id], d)] ELSE as

Fitzgerald == <<"F", "i", "t", "z", "g", "e", "r", "a", "l", "d">>
Lee == <<"L", "e", "e">>
FScott == <<"F", ".", " ", "S", "c", "o", "t", "t">>
Harper == <<"H", "a", "r", "p", "e", "r">>
Gatsby == <<"T", "h", "e", " ", "G", "r", "e", "a", "t", " ", "G", "a", "t", "s", "b", "y">>
Mockingbird == <<"T", "o", " ", "K", "i", "l", "l", " ", "a", " ",
                 "M", "o", "c", "k", "i", "n", "g", "b", "i", "r", "d">>
Scribner == <<"S", "c", "r", "i", "b", "n", "e", "r">>
Lippincott == <<"L", "i", "p", "p", "i", "n", "c", "o", "t", "t">>

\* '9780743273565' and '9780061120084', the ISBNs of the seeded books
IsbnGatsby == <<"9", "7", "8", "0", "7", "4", "3", "2", "7", "3", "5", "6", "5">>
IsbnMockingbird == <<"9", "7", "8", "0", "0", "6", "1", "1", "2", "0", "0", "8", "4">>

\* the authors seedDatabase inserts: no bookCount is written
SeedAuthors ==
    [id \in {"a1", "a2"} |->
        [firstName |-> IF id = "a1" THEN FScott ELSE Harper,
         lastName |-> IF id = "a1" THEN Fitzgerald ELSE Lee, bookCount |-> {}]]

SeedBody(title, author, isbn, year, publisher, pages, copies) ==
    [title |-> Some(title), author |-> Some(author), user |-> None, isbn |-> Some(isbn),
     genre |-> Some("Fiction"), publicationYear |-> Some(year),
     publisher |-> Some(publisher), pageCount |-> Some(pages),
     language |-> Some(English), coverImageUrl |-> None,
     availableCopies |-> Some(copies)]

\* a stored Book: the document the schema builds from a body, with its timestamp
Stored(b, t) == [doc |-> NewBook(b), createdAt |-> t]

\* the books seedDatabase inserts with one insertMany; t is the timestamp of the
\* second one, the same millisecond as the first or a later one
SeedBooks(t) ==
    [id \in {"b1", "b2"} |->
        IF id = "b1"
        THEN Stored(SeedBody(Gatsby, "a1", IsbnGatsby, 1925, Scribner, 180, 10), 0)
        ELSE Stored(SeedBody(Mockingbird, "a2", IsbnMockingbird, 1960, Lippincott, 281, 8), t)]

\* a collection whose isbn index is not unique
IsbnNeverTaken(bs, isbn, self) == FALSE

\* the unique index on isbn: a document other than `self` holds that ISBN
IsbnTaken(bs, isbn, self) ==
    \E id \in DOMAIN bs : id # self /\ bs[id].doc.isbn = Some(isbn)

\* the number of Book documents that reference the author
BooksOf(bs, a) == Cardinality({id \in DOMAIN bs : bs[id].doc.author = Some(a)})

----------------------------------------------------------------------------
(* Authentication *)

\* the middleware of server.js: req.user is set when the x-demo-user header is sent
DemoUser(hdr) == hdr

\* isAuthenticated of the auth middleware module.  token is "none" when no bearer
\* token is sent, "good" when jwt.verify accepts it and "bad" when it throws.
ModuleGate(e, hdr, token) ==
    IF hdr THEN "next"
    ELSE IF e.nodeEnv = "development" /\ e.requireAuth = "false" THEN "next"
    ELSE IF token = "none" THEN "Authentication required"
    ELSE IF token = "good" THEN "next"
    ELSE "Authentication failed"

\* isAuthenticated as the books router defines it when the module cannot be loaded
FallbackGate(e, user) ==
    IF e.requireAuth = "true" /\ ~user THEN "Authentication required" ELSE "next"

\* a gate that lets every request through
IsAuthenticatedOpen(e, hdr, token) == "next"

\* the gate the books router ends up with
IsAuthenticated(e, hdr, token) ==
    IF e.authModule THEN ModuleGate(e, hdr, token) ELSE FallbackGate(e, DemoUser(hdr))

\* the routes of the books router that name isAuthenticated before their handler
GatedOps == {"create", "update", "delete"}

----------------------------------------------------------------------------
(* Responses *)

NoResp ==
    [status |-> 0, error |-> "", field |-> "", errors |-> {}, data |-> <<>>,
     count |-> 0, total |-> 0, totalPages |-> 0, currentPage |-> 0, paged |-> FALSE,
     user |-> None, database |-> None, stack |-> FALSE]

Fail(status, error) == [NoResp EXCEPT !.status = status, !.error = error]

\* res.status(400).json({success: false, errors: errors.array()})
Invalid(errors) == [NoResp EXCEPT !.status = 400, !.errors = errors]

\* a duplicate-key answer sent as 409 Conflict
DuplicateAsConflict(e) == [NoResp EXCEPT !.status = 409, !.error = "Duplicate Entry"]

\* the body of a duplicate-key answer: the tracking controller names the field
Duplicate(e) ==
    IF e.controller = "tracked"
    THEN [NoResp EXCEPT !.status = 400, !.error = "Duplicate Entry", !.field = "isbn"]
    ELSE [NoResp EXCEPT !.status = 400, !.error = "Duplicate ISBN"]

\* a success answer carrying documents: data is a sequence of [id, book]
Ok(status, data) ==
    [NoResp EXCEPT !.status = status, !.data = data, !.count = Len(data)]

\* a handler that answers a missing book as a success
BookNotFoundIgnored == [NoResp EXCEPT !.status = 200]

\* res.status(404).json({success: false, error: 'Book not found'})
BookNotFound == Fail(404, "Book not found")

\* the document with that id as a query returns it: <<>> for null
Lookup(bs, id) == IF id \in DOMAIN bs THEN <<[id |-> id, book |-> bs[id]]>> ELSE <<>>

----------------------------------------------------------------------------
(* Requests *)

EmptyBody ==
    [title |-> None, author |-> None, user |-> None, isbn |-> None, genre |-> None,
     publicationYear |-> None, publisher |-> None, pageCount |-> None, language |-> None,
     coverImageUrl |-> None, availableCopies |-> None]

Dune == <<"D", "u", "n", "e">>
Chilton == <<"C", "h", "i", "l", "t", "o", "n">>

\* '9780441013593', an ISBN no seeded book has, and ways of writing ISBNs
IsbnDune == <<"9", "7", "8", "0", "4", "4", "1", "0", "1", "3", "5", "9", "3">>
IsbnDuneHyphens == <<"9", "7", "8", "-", "0", "-", "4", "4", "1", "-", "0", "1", "3", "5", "9", "-", "3">>
IsbnGatsbyHyphens == <<"9", "7", "8", "-", "0", "-", "7", "4", "-", "3", "2", "7", "3", "5", "6", "-", "5">>
IsbnGatsbySpaces == <<"9", "7", "8", " ", "0", "7", "4", "3", "2", "7", "3", "5", "6", "5">>
IsbnTen == <<"0", "4", "4", "1", "0", "1", "3", "5", "9", "7">>
IsbnFive == <<"1", "2", "3", "4", "5">>

\* a body with every documented required field, valid
Base ==
    [title |-> Some(Dune), author |-> Some("a1"), user |-> None, isbn |-> Some(IsbnDune),
     genre |-> Some("Science Fiction"), publicationYear |-> Some(1965),
     publisher |-> Some(Chilton), pageCount |-> Some(412), language |-> None,
     coverImageUrl |-> None, availableCopies |-> Some(3)]

BookBody(author, isbn) == [Base EXCEPT !.author = Some(author), !.isbn = Some(isbn)]

\* an error object: status 0 and code 0 stand for a member that is not there
NoErr == [name |-> "", message |-> "", code |-> 0, status |-> 0]

NoReq ==
    [op |-> "none", unit |-> FALSE, hdr |-> FALSE, token |-> "none", id |-> "",
     body |-> EmptyBody, page |-> None, limit |-> None, genre |-> None, author |-> None,
     q |-> None, field |-> None, userId |-> None, down |-> FALSE, ready |-> 0,
     err |-> NoErr, fault |-> ""]

\* a request through the books router, sent with the x-demo-user header or without
Post(hdr, body) == [NoReq EXCEPT !.op = "create", !.hdr = hdr, !.body = body]
Put(hdr, id, body) == [NoReq EXCEPT !.op = "update", !.hdr = hdr, !.id = id, !.body = body]
Delete(hdr, id) == [NoReq EXCEPT !.op = "delete", !.hdr = hdr, !.id = id]
Get(id) == [NoReq EXCEPT !.op = "get", !.id = id]
List(page, limit) == [NoReq EXCEPT !.op = "list", !.page = page, !.limit = limit]

\* the controller function called on a request no validator has marked
Unit(rq) == [rq EXCEPT !.unit = TRUE]

\* GET /authors
Authors == [NoReq EXCEPT !.op = "authors"]

\* searchBooks called with the query parameters q and field
Search(q, field) == [NoReq EXCEPT !.op = "search", !.unit = TRUE, !.q = q, !.field = field]

\* the demo authentication endpoints; down: the session store fails the call
Login(userId, down) == [NoReq EXCEPT !.op = "login", !.userId = userId, !.down = down]
Logout(down) == [NoReq EXCEPT !.op = "logout", !.down = down]
Current == [NoReq EXCEPT !.op = "current"]

\* GET /health while mongoose.connection.readyState is ready
Health(ready) == [NoReq EXCEPT !.op = "health", !.ready = ready]

\* a request during which next(err) is called
Raise(err) == [NoReq EXCEPT !.op = "error", !.err = err]

\* the request rq, during which the database call of the step `at` is rejected
\* (the connection is lost, the server times out)
Failing(rq, at) == [rq EXCEPT !.fault = at]

\* the endpoints that answer without a database call
SyncOps == {"login", "logout", "current", "health", "error"}

\* values of coverImageUrl: '', '/c', 'http://x', 'https://x' and 'x'
CoverUrls == {<<>>, <<"/", "c">>, Http \o <<"x">>, Https \o <<"x">>, <<"x">>}

\* the requests the clients send, by workload
CatalogMenu ==
    {Unit(Post(FALSE, BookBody(a, i))) :
        a \in {"a1", "a3"}, i \in {IsbnGatsby, IsbnGatsbyHyphens, IsbnGatsbySpaces, IsbnDune}}
    \cup {Post(TRUE, BookBody("a1", i)) :
        i \in {IsbnGatsby, IsbnGatsbyHyphens, IsbnDune, IsbnDuneHyphens, IsbnTen, IsbnFive}}
    \cup {Post(TRUE, BookBody(a, IsbnDune)) : a \in {"a2", "a3", "zz"}}
    \cup {Post(TRUE, [Base EXCEPT !.coverImageUrl = Some(u)]) : u \in CoverUrls}
    \cup {Put(TRUE, id, BookBody(a, i)) :
        id \in {"b1", "b9"}, a \in {"a1", "a2"}, i \in {IsbnGatsby, IsbnMockingbird}}
    \cup {Put(TRUE, id, [Base EXCEPT !.coverImageUrl = Some(<<"/", "c">>)]) : id \in {"b1", "b9"}}
    \cup {Put(TRUE, "b1", [Base EXCEPT !.coverImageUrl = Some(Http \o <<"x">>)])}
    \cup {Delete(TRUE, id) : id \in {"b1", "b2", "b3", "b9", "zz"}}
    \cup {Get(id) : id \in {"b1", "b3", "b9", "zz", "my-books"}}
    \cup {List(None, None), List(Some(2), Some(1))}
    \cup {Authors, Search(Some(<<"T">>), None)}

\* one request of every kind, so that every handler runs in every workload
BasicMenu ==
    {Unit(Post(FALSE, Base)), Post(TRUE, BookBody("a2", IsbnTen)),
     Put(TRUE, "b1", BookBody("a2", IsbnGatsby)), Delete(TRUE, "b1"), Get("b1"),
     List(None, None), Authors, Search(Some(<<"T">>), None)}

Filtered(rq, genre, author) == [rq EXCEPT !.genre = genre, !.author = author]

ListingMenu ==
    BasicMenu
    \cup {Filtered(List(p, l), f[1], f[2]) :
            p \in {None, Some(1), Some(2), Some(3)},
            l \in {None, Some(1), Some(2), Some(3)},
            f \in {<<None, None>>, <<Some("Fiction"), None>>,
                   <<None, Some("a2")>>, <<Some("Fiction"), Some("a2")>>}}

Signed(rq, hdr, token) == [rq EXCEPT !.hdr = hdr, !.token = token]

GateMenu ==
    {Signed(rq, hdr, token) :
        rq \in {Post(FALSE, Base), Put(FALSE, "b1", BookBody("a2", IsbnGatsby)),
                Delete(FALSE, "b1"), Get("b1"), List(None, None)},
        hdr \in BOOLEAN, token \in {"none", "bad", "good"}}
    \cup {Authors, Search(Some(<<"T">>), None)}

OverlapMenu ==
    {Unit(Post(FALSE, Base)), Unit(Post(FALSE, BookBody("a2", IsbnDune))),
     Put(TRUE, "b1", BookBody("a2", IsbnGatsby)), Put(TRUE, "b2", BookBody("a1", IsbnDune)),
     Delete(TRUE, "b1"), Delete(TRUE, "b2"), Get("b1"), List(None, None),
     Authors, Search(Some(<<"T">>), None)}

\* the demo session endpoints, and writes sent with the header and without it
SessionMenu ==
    {Unit(Post(FALSE, Base)), Put(TRUE, "b1", BookBody("a2", IsbnGatsby)),
     List(None, None), Authors, Search(Some(<<"T">>), None)}
    \cup {Login(u, FALSE) : u \in {None, Some("u1"), Some("")}}
    \cup {Login(Some("u1"), TRUE), Logout(FALSE), Logout(TRUE), Current}
    \cup {Post(hdr, BookBody("a1", IsbnTen)) : hdr \in BOOLEAN}
    \cup {Delete(hdr, "b1") : hdr \in BOOLEAN}

Great == <<"g", "r", "e", "a", "t">>
Fic == <<"f", "i", "c">>
OK == <<"o", " ", "K">>
IsbnPart == <<"9", "7", "8", "0", "7">>

ErrValidation == [NoErr EXCEPT !.name = "ValidationError", !.message = "Validation failed"]
ErrCast == [NoErr EXCEPT !.name = "CastError", !.message = "Cast to ObjectId failed"]
ErrDuplicate ==
    [NoErr EXCEPT !.name = "MongoServerError", !.message = "E11000 duplicate key error",
                  !.code = 11000]
ErrSession == [NoErr EXCEPT !.name = "SessionError", !.message = "session"]
ErrCors == [NoErr EXCEPT !.name = "Error", !.message = "Not allowed by CORS"]
ErrPlain == [NoErr EXCEPT !.name = "Error", !.message = "boom"]
ErrSilent == [NoErr EXCEPT !.name = "TypeError"]
ErrParse ==
    [NoErr EXCEPT !.name = "SyntaxError", !.message = "Unexpected token", !.status = 400]

\* the other endpoints of the application: health, the error handler, search,
\* the authors list and GET /books/my-books
ServiceMenu ==
    BasicMenu
    \cup {Health(r) : r \in {0, 1, 2, 3, 99}}
    \cup {Raise(e) : e \in {ErrValidation, ErrCast, ErrDuplicate, ErrSession, ErrCors,
                             ErrPlain, ErrSilent, ErrParse}}
    \cup {Search(q, f) : q \in {None, Some(<<>>), Some(Great), Some(<<".">>)},
                         f \in {None, Some("title"), Some("publisher")}}
    \cup {Search(Some(q), Some("title")) : q \in {OK, <<"(">>, <<"z", "z">>}}
    \cup {Search(Some(q), Some("genre")) : q \in {Fic, <<"S">>, <<"z", "z">>}}
    \cup {Search(Some(q), Some("isbn")) :
             q \in {IsbnPart, IsbnGatsby, IsbnGatsbyHyphens, IsbnDune}}
    \cup {Search(Some(q), Some("authorName")) : q \in {<<"l", "e", "e">>, <<"s", "c">>, <<"(">>}}
    \cup {Signed(Get("my-books"), hdr, "none") : hdr \in BOOLEAN}

\* the pages of the listing, asked for by two clients
PagesMenu ==
    BasicMenu
    \cup {Filtered(List(Some(p), Some(l)), None, a) :
            p \in {1, 2, 3}, l \in {1, 2}, a \in {None, Some("a2")}}

\* writes during which one database call is rejected
FaultsMenu ==
    BasicMenu
    \cup {Failing(Post(TRUE, Base), at) :
            at \in {"findAuthor", "create", "populate", "incAuthor"}}
    \cup {Failing(Put(TRUE, "b1", BookBody("a2", IsbnGatsby)), at) :
            at \in {"findBook", "findAuthor", "update", "decOld", "incNew"}}
    \cup {Failing(Delete(TRUE, "b1"), at) : at \in {"findBook", "decAuthor", "remove"}}

Menu(e) ==
    CASE e.workload = "catalog" -> CatalogMenu
      [] e.workload = "listing" -> ListingMenu
      [] e.workload = "gate" -> GateMenu
      [] e.workload = "overlap" -> OverlapMenu
      [] e.workload = "session" -> SessionMenu
      [] e.workload = "service" -> ServiceMenu
      [] e.workload = "pages" -> PagesMenu
      [] e.workload = "faults" -> FaultsMenu

\* the requests one run issues
Budget(e) == IF e.workload = "session" THEN MaxSessionRequests ELSE MaxRequests

\* whether the workload lets the requests of the two clients overlap
Overlapping(e) == e.workload \in {"overlap", "pages"}

Clients == {"c1", "c2"}

Idle ==
    [pc |-> "idle", req |-> NoReq, body |-> EmptyBody, errs |-> {}, ran |-> {},
     found |-> <<>>, out |-> <<>>, resp |-> NoResp, alone |-> TRUE,
     preBooks |-> <<>>, preAuthors |-> <<>>]

InFlight(c) == reqs[c].pc \notin {"idle", "done"}

\* JavaScript truthiness of a string field of the body, and of an id it holds
Truthy(o) == IsSome(o) /\ Val(o) # <<>>
TruthyId(o) == IsSome(o) /\ Val(o) # ""

\* createBook storing the ISBN as it was sent
NormalizeIsbnSkipped(b) == b

\* if (req.body.isbn) req.body.isbn = req.body.isbn.replace(/[-\s]/g, '')
NormalizeIsbn(b) ==
    IF Truthy(b.isbn) THEN [b EXCEPT !.isbn = Some(StripIsbn(Val(b.isbn)))] ELSE b

----------------------------------------------------------------------------
(* The state after start-up *)

\* the deployments: process.env.REQUIRE_AUTH and NODE_ENV ("unset" when not set),
\* whether the auth middleware module loads, and which books controller is mounted
Deployment(w, ra, ne, am, ct) ==
    [workload |-> w, requireAuth |-> ra, nodeEnv |-> ne, authModule |-> am, controller |-> ct,
     counted |-> FALSE]

\* the store seedDatabase leaves; the second book's timestamp is one of ts
Seeded(ts) ==
    /\ authors = SeedAuthors
    /\ \E t \in ts : books = SeedBooks(t)
    /\ clock = 0
    /\ issued = 0
    /\ reqs = [c \in Clients |-> Idle]
    /\ sessions = [c \in Clients |-> None]
    /\ lastAuth = [c \in Clients |-> None]

Init ==
    /\ Seeded({0, 1})
    /\ \E ra \in {"unset", "true"}, ct \in {"tracked", "plain"} :
          env = Deployment("catalog", ra, "unset", FALSE, ct)

InitListing ==
    /\ Seeded({0, 1})
    /\ \E ct \in {"tracked", "plain"} : env = Deployment("listing", "unset", "unset", FALSE, ct)

InitGate ==
    /\ Seeded({1})
    /\ \E ra \in {"unset", "true", "false"}, ne \in {"unset", "development", "production"},
          am \in BOOLEAN, ct \in {"tracked", "plain"} :
          env = Deployment("gate", ra, ne, am, ct)

\* a store whose Author documents already hold a bookCount that agrees with the books
CountedAuthors ==
    [id \in DOMAIN SeedAuthors |->
        [SeedAuthors[id] EXCEPT !.bookCount = {BooksOf(SeedBooks(1), id)}]]

\* the server started on the seeded store or on a counted one (env.counted)
InitOverlap ==
    /\ \E counted \in BOOLEAN :
          /\ authors = IF counted THEN CountedAuthors ELSE SeedAuthors
          /\ env = [Deployment("overlap", "unset", "unset", FALSE, "tracked")
                      EXCEPT !.counted = counted]
    /\ books = SeedBooks(1)
    /\ clock = 0
    /\ issued = 0
    /\ reqs = [c \in Clients |-> Idle]
    /\ sessions = [c \in Clients |-> None]
    /\ lastAuth = [c \in Clients |-> None]

InitSession ==
    /\ Seeded({1})
    /\ \E ra \in {"unset", "true"}, am \in BOOLEAN :
          env = Deployment("session", ra, "unset", am, "tracked")

InitService ==
    /\ Seeded({1})
    /\ \E ra \in {"unset", "true"}, ne \in {"unset", "development", "production", "test"} :
          env = Deployment("service", ra, ne, FALSE, "tracked")

InitPages ==
    /\ Seeded({0, 1})
    /\ env = Deployment("pages", "unset", "unset", FALSE, "tracked")

InitFaults ==
    /\ Seeded({1})
    /\ \E ct \in {"tracked", "plain"} : env = Deployment("faults", "unset", "unset", FALSE, ct)

----------------
(* A request arrives: middleware, gate, validators and the controller up to its
   first database call run without giving way to another request *)

Goto(c, pc) == [reqs[c] EXCEPT !.pc = pc]

\* the routes of the books router that match GET /books/<segment>, in the order
\* they are registered; Express hands the request to the first one
BooksGetRoutes == <<":id", "my-books">>

RouteMatches(route, segment) == route = ":id" \/ route = segment

GetRoute(segment) ==
    BooksGetRoutes[CHOOSE i \in 1..Len(BooksGetRoutes) :
        /\ RouteMatches(BooksGetRoutes[i], segment)
        /\ \A j \in 1..(i - 1) : ~RouteMatches(BooksGetRoutes[j], segment)]

\* whether the route the request takes names isAuthenticated
Gated(rq) ==
    /\ ~rq.unit
    /\ \/ rq.op \in GatedOps
       \/ rq.op = "get" /\ GetRoute(rq.id) = "my-books"

\* the handlers of GET /health in the order the application registers them: the
\* one of the main router, mounted at '/', and then the one of server.js
HealthHandlers == <<"router", "server">>

\* statusMessages[dbStatus] || 'unknown'
StatusMessage(ready) ==
    CASE ready = 0 -> "disconnected"
      [] ready = 1 -> "connected"
      [] ready = 2 -> "connecting"
      [] ready = 3 -> "disconnecting"
      [] OTHER -> "unknown"

\* the answer of the first GET /health handler
HealthAnswer(ready) ==
    IF Head(HealthHandlers) = "router"
    THEN [NoResp EXCEPT !.status = 200]
    ELSE [NoResp EXCEPT !.status = 200, !.database = Some(StatusMessage(ready))]

\* a handler that sends the stack whenever NODE_ENV is not 'production'
StackSentOutsideProduction(e) == e.nodeEnv # "production"

\* stack: process.env.NODE_ENV === 'development' ? err.stack : undefined
StackSent(e) == e.nodeEnv = "development"

\* the global error-handling middleware
ErrorHandler(e, err) ==
    IF err.message = "Not allowed by CORS" THEN Fail(403, "CORS Error")
    ELSE IF err.name = "SessionError" THEN Fail(401, "Session Error")
    ELSE IF err.name \in {"MongoError", "MongoServerError"} THEN Fail(500, "Database Error")
    ELSE IF err.name = "ValidationError" THEN Fail(400, "Validation Error")
    ELSE IF err.name = "CastError" THEN Fail(400, "Invalid ID Format")
    ELSE [NoResp EXCEPT
            !.status = IF err.status # 0 THEN err.status ELSE 500,
            !.error = IF err.message # "" THEN err.message ELSE "Internal Server Error",
            !.stack = StackSent(e)]

DefaultDemoUser == "demo-user-123"

\* req.body.userId || 'demo-user-123'
LoginUser(rq) == IF TruthyId(rq.userId) THEN Val(rq.userId) ELSE DefaultDemoUser

\* a logout that leaves the session in the store
SessionKept(rq, session) == session

\* what the session store holds for the caller after the request
SessionAfter(rq, session) ==
    CASE rq.op = "login" /\ ~rq.down -> Some(LoginUser(rq))
      [] rq.op = "logout" /\ ~rq.down -> None
      [] OTHER -> session

\* the demo authentication endpoints, /health and the error handler: the answer
\* to a request of the caller whose session is `session`
Serve(e, rq, session) ==
    CASE rq.op = "login" ->
            IF rq.down THEN Fail(500, "session store")
            ELSE [NoResp EXCEPT !.status = 200, !.user = Some(LoginUser(rq))]
      [] rq.op = "logout" ->
            IF rq.down THEN Fail(500, "session store") ELSE [NoResp EXCEPT !.status = 200]
      [] rq.op = "current" ->
            IF TruthyId(session) THEN [NoResp EXCEPT !.status = 200, !.user = session]
            ELSE Fail(401, "Not authenticated (demo)")
      [] rq.op = "health" -> HealthAnswer(rq.ready)
      [] rq.op = "error" -> ErrorHandler(e, rq.err)

\* the answer is sent: the handler's locals are gone
Answer(c, resp) ==
    [reqs[c] EXCEPT !.pc = "done", !.resp = resp, !.body = EmptyBody, !.errs = {},
                    !.found = <<>>, !.out = <<>>]

\* what the validators named on the route record for the request
RouteErrors(rq) ==
    CASE rq.op = "create" -> ValidateBookErrors(rq.body)
      [] rq.op = "update" -> ValidateObjectIdErrors(rq.id) \cup ValidateBookErrors(rq.body)
      [] rq.op \in {"delete", "get"} -> ValidateObjectIdErrors(rq.id)
      [] OTHER -> {}

\* createBook without its author check: the body goes straight to Book.create
ControllerEntryUnchecked(e, st) ==
    LET op == st.req.op
        tracked == e.controller = "tracked"
    IN  CASE op \in {"create", "update"} /\ st.errs # {} ->
                [st EXCEPT !.pc = "done", !.resp = Invalid(st.errs), !.body = EmptyBody,
                           !.errs = {}]
          [] op = "create" /\ st.errs = {} ->
                IF tracked THEN [st EXCEPT !.pc = "create", !.body = NormalizeIsbn(@)]
                ELSE [st EXCEPT !.pc = "create"]
          [] op = "update" /\ st.errs = {} ->
                [st EXCEPT !.pc = IF tracked THEN "findBook" ELSE "update"]
          [] op = "delete" -> [st EXCEPT !.pc = IF tracked THEN "findBook" ELSE "remove"]
          [] op = "get" -> [st EXCEPT !.pc = "findBook"]
          [] op = "list" -> [st EXCEPT !.pc = "find"]
          [] op = "authors" -> [st EXCEPT !.pc = "findAuthors"]
          [] op = "search" ->
                IF Truthy(st.req.q) THEN [st EXCEPT !.pc = "search"]
                ELSE [st EXCEPT !.pc = "done", !.resp = Fail(400, "Search query required")]

\* the part of the controller that runs before its first await
ControllerEntry(e, st) ==
    LET op == st.req.op
        tracked == e.controller = "tracked"
    IN  CASE op \in {"create", "update"} /\ st.errs # {} ->
                [st EXCEPT !.pc = "done", !.resp = Invalid(st.errs), !.body = EmptyBody,
                           !.errs = {}]
          [] op = "create" /\ st.errs = {} ->
                IF tracked /\ TruthyId(st.body.author) THEN [st EXCEPT !.pc = "findAuthor"]
                ELSE IF tracked THEN [st EXCEPT !.pc = "create", !.body = NormalizeIsbn(@)]
                ELSE [st EXCEPT !.pc = "create"]
          [] op = "update" /\ st.errs = {} ->
                [st EXCEPT !.pc = IF tracked THEN "findBook" ELSE "update"]
          [] op = "delete" -> [st EXCEPT !.pc = IF tracked THEN "findBook" ELSE "remove"]
          [] op = "get" -> [st EXCEPT !.pc = "findBook"]
          [] op = "list" -> [st EXCEPT !.pc = "find"]
          [] op = "authors" -> [st EXCEPT !.pc = "findAuthors"]
          [] op = "search" ->
                IF Truthy(st.req.q) THEN [st EXCEPT !.pc = "search"]
                ELSE [st EXCEPT !.pc = "done", !.resp = Fail(400, "Search query required")]

\* the handler of GET /books/my-books, which hands over to getAllBooks when
\* authentication is required
MyBooks(e, st) ==
    IF e.requireAuth = "true" THEN [st EXCEPT !.pc = "find"]
    ELSE [st EXCEPT !.pc = "done", !.resp = [NoResp EXCEPT !.status = 200]]

\* what runs for a request the gate lets through
Handlers(rq) ==
    (IF rq.unit \/ rq.op \in {"list", "authors"} THEN {"controller"}
     ELSE {"validators", "controller"})
    \cup (IF rq.op = "get" /\ ~rq.unit
          THEN {IF GetRoute(rq.id) = ":id" THEN "getBookById" ELSE "myBooks"} ELSE {})

Receive(c, rq) ==
    /\ reqs[c].pc = "idle"
    /\ issued < Budget(env)
    /\ rq \in Menu(env)
    /\ Overlapping(env) \/ c = "c1"
    /\ issued' = issued + 1
    /\ LET gate == IF Gated(rq) THEN IsAuthenticated(env, rq.hdr, rq.token) ELSE "next"
           quiet == \A d \in Clients \ {c} : ~InFlight(d)
           st0 == [Idle EXCEPT !.req = rq, !.alone = quiet,
                               !.preBooks = books, !.preAuthors = authors]
           st1 == [st0 EXCEPT !.errs = IF rq.unit THEN {} ELSE RouteErrors(rq),
                              !.body = IF rq.unit \/ rq.op \notin {"create", "update"}
                                       THEN rq.body ELSE SanitizeBook(rq.body),
                              !.ran = Handlers(rq)]
           mine == IF rq.op \in SyncOps
                   THEN [st0 EXCEPT !.pc = "done", !.resp = Serve(env, rq, sessions[c]),
                                    !.ran = {"controller"}]
                   ELSE IF gate # "next"
                   THEN [st0 EXCEPT !.pc = "done", !.resp = Fail(401, gate)]
                   ELSE IF "myBooks" \in st1.ran THEN MyBooks(env, st1)
                   ELSE ControllerEntry(env, st1)
       IN  reqs' = [d \in Clients |->
                      IF d = c THEN mine
                      ELSE IF InFlight(d) THEN [reqs[d] EXCEPT !.alone = FALSE]
                      ELSE reqs[d]]
    /\ sessions' = [sessions EXCEPT ![c] = SessionAfter(rq, @)]
    /\ lastAuth' = IF rq.op \in {"login", "logout"} /\ ~rq.down
                   THEN [lastAuth EXCEPT ![c] = Some([op |-> rq.op, userId |-> rq.userId])]
                   ELSE lastAuth
    /\ UNCHANGED <<books, authors, clock, env>>

\* the client has read the answer
Forget(c) ==
    /\ reqs[c].pc = "done"
    /\ reqs' = [reqs EXCEPT ![c] = Idle]
    /\ UNCHANGED <<books, authors, clock, issued, env, sessions, lastAuth>>

----------------------------------------------------------------------------
(* The steps of the handlers: one action per awaited database call *)

Tracked == env.controller = "tracked"

\* a catch block without its CastError branch
CastErrorUnhandled(op) == Fail(500, "Server Error")

\* what the catch block of a handler answers to a CastError: getBookById, updateBook
\* and deleteBook name it, createBook falls through to Server Error
CastErrorAnswer(op) ==
    IF op = "create" THEN Fail(500, "Server Error") ELSE Fail(400, "Invalid book ID format")

Step(c, st) == reqs' = [reqs EXCEPT ![c] = st]

\* the database call the handler is waiting on is rejected
Throws(st) == st.req.fault = st.pc

\* the last branch of every catch block: an error that is no CastError, no
\* duplicate key and no ValidationError
ServerError == Fail(500, "Server Error")

\* createBook, updateBook: await Author.findById(req.body.author)
FindAuthor(c) ==
    LET st == reqs[c]
        a == Val(st.body.author)
    IN  /\ st.pc = "findAuthor"
        /\ Step(c,
             IF Throws(st) THEN Answer(c, ServerError)
             ELSE IF ~CastsToObjectId(a)
             THEN Answer(c, CastErrorAnswer(st.req.op))
             ELSE IF a \notin DOMAIN authors THEN Answer(c, Fail(400, "Author not found"))
             ELSE [st EXCEPT !.pc = st.req.op, !.body = NormalizeIsbn(@)])
        /\ UNCHANGED <<books, authors, clock, issued, env, sessions, lastAuth>>

\* createBook: await Book.create(req.body)
Create(c) ==
    LET st == reqs[c]
        errors == CreateErrors(st.body, env)
        id == NewBookId(clock)
    IN  /\ st.pc = "create"
        /\ IF Throws(st)
           THEN /\ Step(c, Answer(c, ServerError))
                /\ UNCHANGED <<books, clock>>
           ELSE IF errors # {}
           THEN /\ Step(c, Answer(c, [Fail(400, "Validation Error") EXCEPT !.errors = errors]))
                /\ UNCHANGED <<books, clock>>
           ELSE IF IsbnTaken(books, Val(st.body.isbn), "")
           THEN /\ Step(c, Answer(c, Duplicate(env)))
                /\ UNCHANGED <<books, clock>>
           ELSE /\ books' = (id :> Stored(st.body, clock + 2)) @@ books
                /\ clock' = clock + 1
                /\ Step(c, [st EXCEPT !.pc = "populate", !.found = <<id>>])
        /\ UNCHANGED <<authors, issued, env, sessions, lastAuth>>

\* createBook: await Book.findById(book._id).populate(...)
Populate(c) ==
    LET st == reqs[c]
        data == Lookup(books, st.found[1])
    IN  /\ st.pc = "populate"
        /\ Step(c,
             IF Throws(st) THEN Answer(c, ServerError)
             ELSE IF Tracked /\ TruthyId(st.body.author)
             THEN [st EXCEPT !.pc = "incAuthor", !.out = data]
             ELSE Answer(c, Ok(201, data)))
        /\ UNCHANGED <<books, authors, clock, issued, env, sessions, lastAuth>>

\* createBook: await Author.findByIdAndUpdate(req.body.author, {$inc: {bookCount: 1}})
IncAuthorStep(c) ==
    LET st == reqs[c]
    IN  /\ st.pc = "incAuthor"
        /\ authors' = IF Throws(st) THEN authors
                       ELSE IncAuthor(authors, Val(st.body.author), 1)
        /\ Step(c, Answer(c, IF Throws(st) THEN ServerError ELSE Ok(201, st.out)))
        /\ UNCHANGED <<books, clock, issued, env, sessions, lastAuth>>

\* getBookById, updateBook, deleteBook: await Book.findById(req.params.id)
FindBook(c) ==
    LET st == reqs[c]
        id == st.req.id
        hit == Lookup(books, id)
        author == hit[1].book.doc.author
    IN  /\ st.pc = "findBook"
        /\ Step(c,
             IF Throws(st) THEN Answer(c, ServerError)
             ELSE IF ~CastsToObjectId(id) THEN Answer(c, CastErrorAnswer(st.req.op))
             ELSE IF hit = <<>> THEN Answer(c, BookNotFound)
             ELSE CASE st.req.op = "get" -> Answer(c, Ok(200, hit))
                    [] st.req.op = "delete" -> [st EXCEPT !.pc = "decAuthor", !.found = hit]
                    [] st.req.op = "update" ->
                         IF TruthyId(st.body.author) /\ st.body.author # author
                         THEN [st EXCEPT !.pc = "findAuthor", !.found = hit]
                         ELSE [st EXCEPT !.pc = "update", !.found = hit,
                                         !.body = NormalizeIsbn(@)])
        /\ UNCHANGED <<books, authors, clock, issued, env, sessions, lastAuth>>

\* an update that writes nothing
OverwriteNothing(old, b) == old

\* the document after the $set of the body's fields
Overwrite(old, b) ==
    LET set(f) == IF IsSome(b[f]) THEN UpdateSet(b)[f] ELSE old.doc[f]
    IN  [old EXCEPT !.doc =
            [title |-> set("title"), author |-> set("author"), user |-> set("user"),
             isbn |-> set("isbn"), genre |-> set("genre"),
             publicationYear |-> set("publicationYear"), publisher |-> set("publisher"),
             pageCount |-> set("pageCount"), language |-> set("language"),
             coverImageUrl |-> set("coverImageUrl"),
             availableCopies |-> set("availableCopies")]]

\* updateBook: await Book.findByIdAndUpdate(id, {...req.body}, {new, runValidators})
Update(c) ==
    LET st == reqs[c]
        id == st.req.id
        errors == UpdateErrors(st.body, env)
        after == [books EXCEPT ![id] = Overwrite(@, st.body)]
        moved == Tracked /\ TruthyId(st.body.author)
                         /\ st.body.author # st.found[1].book.doc.author
    IN  /\ st.pc = "update"
        /\ IF Throws(st)
           THEN /\ Step(c, Answer(c, ServerError))
                /\ UNCHANGED books
           ELSE IF ~CastsToObjectId(id)
           THEN /\ Step(c, Answer(c, CastErrorAnswer(st.req.op)))
                /\ UNCHANGED books
           ELSE IF errors # {}
           THEN /\ Step(c, Answer(c, [Fail(400, "Validation Error") EXCEPT !.errors = errors]))
                /\ UNCHANGED books
           ELSE IF id \in DOMAIN books /\ IsSome(st.body.isbn)
                   /\ IsbnTaken(books, Val(st.body.isbn), id)
           THEN /\ Step(c, Answer(c, Duplicate(env)))
                /\ UNCHANGED books
           ELSE IF id \in DOMAIN books
           THEN /\ books' = after
                /\ Step(c, IF moved THEN [st EXCEPT !.pc = "decOld", !.out = Lookup(after, id)]
                           ELSE Answer(c, Ok(200, Lookup(after, id))))
           ELSE /\ UNCHANGED books
                /\ Step(c, IF ~Tracked THEN Answer(c, BookNotFound)
                           ELSE IF moved THEN [st EXCEPT !.pc = "decOld", !.out = <<>>]
                           ELSE Answer(c, Ok(200, <<>>)))
        /\ UNCHANGED <<authors, clock, issued, env, sessions, lastAuth>>

\* updateBook: await Author.findByIdAndUpdate(existingBook.author, {$inc: {bookCount: -1}})
DecOld(c) ==
    LET st == reqs[c]
    IN  /\ st.pc = "decOld"
        /\ authors' = IF Throws(st) THEN authors
                       ELSE IncAuthor(authors, Val(st.found[1].book.doc.author), -1)
        /\ Step(c, IF Throws(st) THEN Answer(c, ServerError) ELSE Goto(c, "incNew"))
        /\ UNCHANGED <<books, clock, issued, env, sessions, lastAuth>>

\* updateBook: await Author.findByIdAndUpdate(req.body.author, {$inc: {bookCount: 1}})
IncNew(c) ==
    LET st == reqs[c]
    IN  /\ st.pc = "incNew"
        /\ authors' = IF Throws(st) THEN authors
                       ELSE IncAuthor(authors, Val(st.body.author), 1)
        /\ Step(c, Answer(c, IF Throws(st) THEN ServerError ELSE Ok(200, st.out)))
        /\ UNCHANGED <<books, clock, issued, env, sessions, lastAuth>>

\* deleteBook: await Author.findByIdAndUpdate(book.author, {$inc: {bookCount: -1}})
DecAuthor(c) ==
    LET st == reqs[c]
    IN  /\ st.pc = "decAuthor"
        /\ authors' = IF Throws(st) THEN authors
                       ELSE IncAuthor(authors, Val(st.found[1].book.doc.author), -1)
        /\ Step(c, IF Throws(st) THEN Answer(c, ServerError) ELSE Goto(c, "remove"))
        /\ UNCHANGED <<books, clock, issued, env, sessions, lastAuth>>

\* a delete that leaves the document in the collection
WithoutNothing(bs, id) == bs

\* the collection after findByIdAndDelete(id)
Without(bs, id) == [x \in DOMAIN bs \ {id} |-> bs[x]]

\* deleteBook: await Book.findByIdAndDelete(req.params.id)
Remove(c) ==
    LET st == reqs[c]
        id == st.req.id
    IN  /\ st.pc = "remove"
        /\ IF Throws(st)
           THEN /\ Step(c, Answer(c, ServerError))
                /\ UNCHANGED books
           ELSE IF Tracked
           THEN /\ books' = Without(books, id)
                /\ Step(c, Answer(c, Ok(200, st.found)))
           ELSE IF ~CastsToObjectId(id)
           THEN /\ Step(c, Answer(c, CastErrorAnswer(st.req.op)))
                /\ UNCHANGED books
           ELSE IF id \notin DOMAIN books
           THEN /\ Step(c, Answer(c, BookNotFound))
                /\ UNCHANGED books
           ELSE /\ books' = Without(books, id)
                /\ Step(c, Answer(c, Ok(200, Lookup(books, id))))
        /\ UNCHANGED <<authors, clock, issued, env, sessions, lastAuth>>

----------------------------------------------------------------------------
(* Listing *)

\* const { page = 1, limit = 10, genre, author } = req.query
PageOf(rq) == IF IsSome(rq.page) THEN Val(rq.page) ELSE DefaultPage
LimitOf(rq) == IF IsSome(rq.limit) THEN Val(rq.limit) ELSE DefaultLimit

\* the filter getAllBooks builds: a query parameter that is not given filters nothing
Matching(bs, rq) ==
    {id \in DOMAIN bs :
        /\ IsSome(rq.genre) => bs[id].doc.genre = rq.genre
        /\ IsSome(rq.author) => bs[id].doc.author = rq.author}

\* sort({createdAt: -1}): every order of the ids with the newest first; documents
\* with the same timestamp come in an order the database chooses
RECURSIVE NewestFirst(_, _)
NewestFirst(bs, ids) ==
    IF ids = {} THEN {<<>>}
    ELSE UNION {{<<x>> \o rest : rest \in NewestFirst(bs, ids \ {x})} :
                  x \in {y \in ids : \A z \in ids : bs[y].createdAt >= bs[z].createdAt}}

Min(a, b) == IF a <= b THEN a ELSE b

\* skip(n) then limit(l) on a sorted result
SkipLimit(order, n, l) == SubSeq(order, n + 1, Min(n + l, Len(order)))

\* Math.ceil(total / limit)
CeilDiv(a, b) == (a + b - 1) \div b

\* skip(page * limit)
SkipOfNextPage(rq) == PageOf(rq) * LimitOf(rq)

\* skip((page - 1) * limit)
SkipOf(rq) == (PageOf(rq) - 1) * LimitOf(rq)

Documents(bs, order) == [i \in 1..Len(order) |-> [id |-> order[i], book |-> bs[order[i]]]]

\* getAllBooks: await Book.find(filter).sort(...).limit(...).skip(...); the plain
\* controller finds every book and answers at once
Find(c) ==
    LET st == reqs[c]
        rq == st.req
    IN  /\ st.pc = "find"
        /\ IF Tracked
           THEN IF IsSome(rq.author) /\ ~CastsToObjectId(Val(rq.author))
                THEN Step(c, Answer(c, Fail(500, "Server Error")))
                ELSE \E order \in NewestFirst(books, Matching(books, rq)) :
                        Step(c, [st EXCEPT !.pc = "count",
                                   !.out = Documents(books,
                                       SkipLimit(order, SkipOf(rq), LimitOf(rq)))])
           ELSE \E order \in NewestFirst(books, DOMAIN books) :
                   Step(c, Answer(c, Ok(200, Documents(books, order))))
        /\ UNCHANGED <<books, authors, clock, issued, env, sessions, lastAuth>>

\* getAllBooks: await Book.countDocuments(filter), then the envelope
Count(c) ==
    LET st == reqs[c]
        total == Cardinality(Matching(books, st.req))
    IN  /\ st.pc = "count"
        /\ Step(c, Answer(c, [Ok(200, st.out) EXCEPT !.total = total,
                                !.totalPages = CeilDiv(total, LimitOf(st.req)),
                                !.currentPage = PageOf(st.req), !.paged = TRUE]))
        /\ UNCHANGED <<books, authors, clock, issued, env, sessions, lastAuth>>

\* every order of the ids in which no key comes before the key of an earlier id
RECURSIVE Ascending(_, _)
Ascending(key, ids) ==
    IF ids = {} THEN {<<>>}
    ELSE UNION {{<<x>> \o rest : rest \in Ascending(key, ids \ {x})} :
                  x \in {y \in ids : \A z \in ids : ~Before(key[z], key[y])}}

\* find() without a sort: the documents in an order the database chooses
AnyOrder(ids) == Ascending([x \in ids |-> <<>>], ids)

\* Author.find() without its sort
AuthorsUnsorted(as) == AnyOrder(DOMAIN as)

\* Author.find().sort({lastName: 1})
AuthorsByLastName(as) == Ascending([a \in DOMAIN as |-> as[a].lastName], DOMAIN as)

\* getAllAuthors: await Author.find().sort({lastName: 1})
FindAuthors(c) ==
    LET st == reqs[c]
    IN  /\ st.pc = "findAuthors"
        /\ \E order \in AuthorsByLastName(authors) :
              Step(c, Answer(c, Ok(200, [i \in 1..Len(order) |->
                                          [id |-> order[i], author |-> authors[order[i]]]])))
        /\ UNCHANGED <<books, authors, clock, issued, env, sessions, lastAuth>>

\* the genres as strings of characters
Spell(g) ==
    CASE g = "Fiction" -> <<"F", "i", "c", "t", "i", "o", "n">>
      [] g = "Non-Fiction" -> <<"N", "o", "n", "-", "F", "i", "c", "t", "i", "o", "n">>
      [] g = "Science Fiction" ->
            <<"S", "c", "i", "e", "n", "c", "e", " ", "F", "i", "c", "t", "i", "o", "n">>
      [] g = "Fantasy" -> <<"F", "a", "n", "t", "a", "s", "y">>
      [] g = "Mystery" -> <<"M", "y", "s", "t", "e", "r", "y">>
      [] g = "Biography" -> <<"B", "i", "o", "g", "r", "a", "p", "h", "y">>
      [] g = "History" -> <<"H", "i", "s", "t", "o", "r", "y">>
      [] g = "Self-Help" -> <<"S", "e", "l", "f", "-", "H", "e", "l", "p">>
      [] g = "Other" -> <<"O", "t", "h", "e", "r">>

\* const { q, field = 'title' } = req.query
FieldOf(rq) == IF IsSome(rq.field) THEN Val(rq.field) ELSE "title"

\* the books the filter of searchBooks selects: a regular expression on genre or
\* title, the stripped query as the value of isbn
SearchHits(bs, field, q) ==
    {id \in DOMAIN bs :
        CASE field = "genre" -> RegexTest(q, Spell(Val(bs[id].doc.genre)))
          [] field = "isbn" -> bs[id].doc.isbn = Some(StripIsbn(q))
          [] OTHER -> RegexTest(q, Val(bs[id].doc.title))}

\* populate with a match on the author's names: the books whose author is left
AuthorNameHits(bs, as, q) ==
    {id \in DOMAIN bs :
        LET a == Val(bs[id].doc.author)
        IN  /\ a \in DOMAIN as
            /\ RegexTest(q, as[a].firstName) \/ RegexTest(q, as[a].lastName)}

\* searchBooks: await Book.find(searchFilter).sort({title: 1}), or for authorName
\* await Book.find().populate({path: 'author', match}) and the filter on it
SearchStep(c) ==
    LET st == reqs[c]
        q == Val(st.req.q)
        field == FieldOf(st.req)
        titles == [id \in DOMAIN books |-> Val(books[id].doc.title)]
    IN  /\ st.pc = "search"
        /\ IF field # "isbn" /\ RegexThrows(q)
           THEN Step(c, Answer(c, Fail(500, "Server Error")))
           ELSE IF field = "authorName"
           THEN \E order \in AnyOrder(AuthorNameHits(books, authors, q)) :
                   Step(c, Answer(c, Ok(200, Documents(books, order))))
           ELSE \E order \in Ascending(titles, SearchHits(books, field, q)) :
                   Step(c, Answer(c, Ok(200, Documents(books, order))))
        /\ UNCHANGED <<books, authors, clock, issued, env, sessions, lastAuth>>

----------------------------------------------------------------------------

Next ==
    \E c \in Clients :
        \/ \E rq \in Menu(env) : Receive(c, rq)
        \/ FindAuthor(c)
        \/ Create(c)
        \/ Populate(c)
        \/ IncAuthorStep(c)
        \/ FindBook(c)
        \/ Update(c)
        \/ DecOld(c)
        \/ IncNew(c)
        \/ DecAuthor(c)
        \/ Remove(c)
        \/ Find(c)
        \/ Count(c)
        \/ FindAuthors(c)
        \/ SearchStep(c)
        \/ Forget(c)

Spec == Init /\ [][Next]_vars

SpecListing == InitListing /\ [][Next]_vars

SpecGate == InitGate /\ [][Next]_vars

SpecOverlap == InitOverlap /\ [][Next]_vars

SpecSession == InitSession /\ [][Next]_vars

SpecService == InitService /\ [][Next]_vars

SpecPages == InitPages /\ [][Next]_vars

SpecFaults == InitFaults /\ [][Next]_vars

----------------------------------------------------------------------------
(* Properties *)

Finished(c) == reqs[c].pc = "done"

\* an ISBN with its hyphens and white space taken out
Unseparated(s) == SelectSeq(s, LAMBDA ch : ch # "-" /\ ch \notin {" ", "\t", "\n"})

\* the request got past the gate and the validators of its route, or was handed
\* to the controller as it is
Admitted(rq) ==
    \/ rq.unit
    \/ /\ rq.op \in GatedOps => IsAuthenticated(env, rq.hdr, rq.token) = "next"
       /\ RouteErrors(rq) = {}

HoldsIsbn(bs, isbn) == \E id \in DOMAIN bs : bs[id].doc.isbn = Some(isbn)

StoreAsBefore(c) == books = reqs[c].preBooks /\ authors = reqs[c].preAuthors

\* C1: createBook of the tracking controller, on an admitted request whose author
\* exists and whose body is valid for the schema once the hyphens and white space
\* are out of the ISBN: when a stored book has that ISBN the answer is 400
\* 'Duplicate Entry' naming isbn, and books and authors are as before the request.
C1_DuplicateIsbnRejected ==
    \A c \in Clients :
        LET st == reqs[c]
            rq == st.req
            isbn == Unseparated(Val(rq.body.isbn))
        IN  (/\ Finished(c) /\ st.alone
             /\ rq.op = "create" /\ Tracked /\ Admitted(rq)
             /\ IsSome(rq.body.isbn) /\ HoldsIsbn(st.preBooks, isbn)
             /\ IsSome(rq.body.author) /\ Val(rq.body.author) \in DOMAIN st.preAuthors
             /\ CreateErrors([rq.body EXCEPT !.isbn = Some(isbn)], env) = {})
            => /\ st.resp.status = 400
               /\ st.resp.error = "Duplicate Entry"
               /\ st.resp.field = "isbn"
               /\ StoreAsBefore(c)

\* C1 witness: an ISBN sent with hyphens, equal to a stored one without them, was
\* turned down as a duplicate
C1_Witness ==
    \E c \in Clients :
        /\ Finished(c) /\ reqs[c].req.op = "create" /\ Tracked
        /\ reqs[c].req.body.isbn = Some(IsbnGatsbyHyphens)
        /\ HoldsIsbn(reqs[c].preBooks, IsbnGatsby)
        /\ reqs[c].resp.error = "Duplicate Entry"

\* C2: POST /books through the router, past the gate, with the documented fields
\* valid, an existing author and an unused 13-digit ISBN written with hyphens or
\* spaces, is answered 201 and a book with the ISBN without them is stored.
C2_SeparatedIsbnStored ==
    \A c \in Clients :
        LET st == reqs[c]
            rq == st.req
            isbn == Unseparated(Val(rq.body.isbn))
        IN  (/\ Finished(c) /\ st.alone
             /\ rq.op = "create" /\ ~rq.unit
             /\ IsAuthenticated(env, rq.hdr, rq.token) = "next"
             /\ env.requireAuth # "true"
             /\ IsSome(rq.body.isbn) /\ Val(rq.body.isbn) # isbn
             /\ Len(isbn) = IsbnLong /\ MatchesIsbn(isbn) /\ ~HoldsIsbn(st.preBooks, isbn)
             /\ rq.body = BookBody(Val(rq.body.author), Val(rq.body.isbn))
             /\ Val(rq.body.author) \in DOMAIN st.preAuthors)
            => /\ st.resp.status = 201
               /\ \E id \in DOMAIN books \ DOMAIN st.preBooks :
                     books[id].doc.isbn = Some(isbn)

\* C3: createBook of the tracking controller, on an admitted request whose author
\* id is well formed and is no stored Author: the answer is 400 'Author not
\* found', no book is inserted and no author changes.
C3_UnknownAuthorRejected ==
    \A c \in Clients :
        LET st == reqs[c]
            rq == st.req
        IN  (/\ Finished(c) /\ st.alone
             /\ rq.op = "create" /\ Tracked /\ Admitted(rq)
             /\ IsSome(rq.body.author) /\ IsMongoId(Val(rq.body.author))
             /\ Val(rq.body.author) \notin DOMAIN st.preAuthors)
            => /\ st.resp.status = 400
               /\ st.resp.error = "Author not found"
               /\ StoreAsBefore(c)

\* C3 witness: a create naming the well-formed id of no author was turned down
C3_Witness ==
    \E c \in Clients :
        /\ Finished(c) /\ reqs[c].req.op = "create" /\ Tracked
        /\ reqs[c].req.body.author = Some("a3")
        /\ reqs[c].resp.error = "Author not found"

\* the count an Author document holds, a document without the field counting as 0
CountOf(as, a) == IF as[a].bookCount = {} THEN 0 ELSE CHOOSE n \in as[a].bookCount : TRUE

\* C4: after a DELETE of a stored book that was answered 200, with no other
\* request overlapping, the book is gone, its author's bookCount is one less than
\* before the request and every other author's bookCount is as before.
C4_DeleteDecrementsAuthor ==
    \A c \in Clients :
        LET st == reqs[c]
            id == st.req.id
            a == Val(st.preBooks[id].doc.author)
        IN  (/\ Finished(c) /\ st.alone
             /\ st.req.op = "delete" /\ Tracked /\ st.resp.status = 200
             /\ id \in DOMAIN st.preBooks)
            => /\ id \notin DOMAIN books
               /\ CountOf(authors, a) = CountOf(st.preAuthors, a) - 1
               /\ \A x \in DOMAIN authors \ {a} :
                     authors[x].bookCount = st.preAuthors[x].bookCount

\* C5: whenever no request of the tracking controller is under way, every Author
\* document holds a bookCount equal to the number of books that reference it.
C5_CountsMatchBooks ==
    (Tracked /\ \A c \in Clients : ~InFlight(c))
        => \A a \in DOMAIN authors : authors[a].bookCount = {BooksOf(books, a)}

\* C7: no two stored books have the same ISBN, and a request through the router
\* that would give a book the ISBN of another stored book (a POST, or a PUT to a
\* stored book) is answered 400 and leaves books and authors as they were.
C7_IsbnUnique ==
    /\ \A i, j \in DOMAIN books : books[i].doc.isbn = books[j].doc.isbn => i = j
    /\ \A c \in Clients :
          LET st == reqs[c]
              rq == st.req
              isbn == Unseparated(Val(rq.body.isbn))
          IN  (/\ Finished(c) /\ st.alone /\ ~rq.unit
               /\ rq.op \in {"create", "update"}
               /\ IsAuthenticated(env, rq.hdr, rq.token) = "next"
               /\ IsSome(rq.body.isbn)
               /\ rq.op = "update" => rq.id \in DOMAIN st.preBooks
               /\ \E id \in DOMAIN st.preBooks :
                     id # rq.id /\ st.preBooks[id].doc.isbn = Some(isbn))
              => st.resp.status = 400 /\ StoreAsBefore(c)

\* C7 witness: a PUT that would give a stored book the ISBN of another one was
\* turned down as a duplicate
C7_Witness ==
    \E c \in Clients :
        /\ Finished(c) /\ reqs[c].req.op = "update" /\ reqs[c].req.id = "b1"
        /\ reqs[c].req.body.isbn = Some(IsbnMockingbird)
        /\ reqs[c].resp.status = 400
        /\ reqs[c].resp.error \in {"Duplicate Entry", "Duplicate ISBN"}

\* C8: GET /books/:id answers 400 to an id that is no well-formed identifier, 404
\* to a well-formed id of no stored book, and 200 with the book to a stored id.
C8_GetBookById ==
    \A c \in Clients :
        LET st == reqs[c]
            id == st.req.id
        IN  (Finished(c) /\ st.alone /\ st.req.op = "get")
            => /\ ~IsMongoId(id) => st.resp.status = 400
               /\ (IsMongoId(id) /\ id \notin DOMAIN st.preBooks) => st.resp.status = 404
               /\ id \in DOMAIN st.preBooks
                     => /\ st.resp.status = 200
                        /\ st.resp.data = <<[id |-> id, book |-> st.preBooks[id]]>>

\* C8 witness: a GET with an id that is no identifier was answered 400
C8_Witness ==
    \E c \in Clients :
        /\ Finished(c) /\ reqs[c].req.op = "get"
        /\ reqs[c].req.id = "my-books" /\ reqs[c].resp.status = 400

Newer(bs, ids, x) == {y \in ids : bs[y].createdAt > bs[x].createdAt}
NotOlder(bs, ids, x) == {y \in ids : bs[y].createdAt >= bs[x].createdAt}

\* C9: the paginated getAllBooks, for page p and limit l and N books matching the
\* filter: total = N, totalPages = ceil(N / l), currentPage = p, count is the
\* length of data and at most l, and data holds the books of rank (p-1)*l+1 to
\* min(p*l, N) by descending creation time, each once.
C9_Page ==
    \A c \in Clients :
        LET st == reqs[c]
            rq == st.req
            p == IF IsSome(rq.page) THEN Val(rq.page) ELSE DefaultPage
            l == IF IsSome(rq.limit) THEN Val(rq.limit) ELSE DefaultLimit
            ids == {id \in DOMAIN st.preBooks :
                       /\ IsSome(rq.genre) => st.preBooks[id].doc.genre = rq.genre
                       /\ IsSome(rq.author) => st.preBooks[id].doc.author = rq.author}
            N == Cardinality(ids)
            first == (p - 1) * l + 1
            last == IF p * l < N THEN p * l ELSE N
            data == st.resp.data
        IN  (Finished(c) /\ st.alone /\ rq.op = "list" /\ Tracked)
            => /\ st.resp.status = 200
               /\ st.resp.total = N
               /\ st.resp.totalPages * l >= N /\ (st.resp.totalPages - 1) * l < N
               /\ N = 0 => st.resp.totalPages = 0
               /\ st.resp.currentPage = p
               /\ st.resp.count = Len(data) /\ Len(data) <= l
               /\ Len(data) = IF last >= first THEN last - first + 1 ELSE 0
               /\ \A i \in 1..Len(data) :
                     /\ data[i].id \in ids /\ data[i].book = st.preBooks[data[i].id]
                     /\ Cardinality(Newer(st.preBooks, ids, data[i].id)) <= first + i - 2
                     /\ Cardinality(NotOlder(st.preBooks, ids, data[i].id)) >= first + i - 1
                     /\ \A j \in 1..Len(data) : data[i].id = data[j].id => i = j

\* C9 witness: page 2 with limit 1 on the two seeded books returned one book, the
\* second by creation time, with totalPages = 2
C9_Witness ==
    \E c \in Clients :
        LET st == reqs[c]
        IN  /\ Finished(c) /\ st.req.op = "list" /\ Tracked
            /\ st.req.page = Some(2) /\ st.req.limit = Some(1)
            /\ st.req.genre = None /\ st.req.author = None
            /\ DOMAIN st.preBooks = {"b1", "b2"}
            /\ st.preBooks["b2"].createdAt > st.preBooks["b1"].createdAt
            /\ st.resp.totalPages = 2 /\ st.resp.count = 1
            /\ st.resp.data[1].id = "b1"

\* C10: with REQUIRE_AUTH = 'true', a POST, PUT or DELETE through the router with
\* no x-demo-user header and no valid token is answered 401, no validator and no
\* controller has run for it, and books and authors are as before; GET /books
\* and GET /books/:id reach their controller and are never answered 401.
C10_WritesGated ==
    \A c \in Clients :
        LET st == reqs[c]
            rq == st.req
        IN  (Finished(c) /\ st.alone /\ ~rq.unit /\ env.requireAuth = "true")
            => /\ (rq.op \in {"create", "update", "delete"} /\ ~rq.hdr /\ rq.token # "good")
                     => st.resp.status = 401 /\ st.ran = {} /\ StoreAsBefore(c)
               /\ rq.op \in {"get", "list"}
                     => st.resp.status # 401 /\ "controller" \in st.ran

\* C10 witness: with REQUIRE_AUTH = 'true' a POST without credentials got 401
C10_Witness ==
    \E c \in Clients :
        /\ env.requireAuth = "true"
        /\ Finished(c) /\ reqs[c].req.op = "create"
        /\ ~reqs[c].req.hdr /\ reqs[c].req.token = "none"
        /\ reqs[c].resp.status = 401

\* C11: with REQUIRE_AUTH = 'true', a caller whose session holds the userId of a
\* demo login and who sends no x-demo-user header gets past the gate of POST, PUT
\* and DELETE /books, as a caller sending the header does: the request is not
\* answered 401 and reaches its controller.
C11_SessionPassesGate ==
    \A c \in Clients :
        LET st == reqs[c]
            rq == st.req
        IN  (/\ Finished(c) /\ ~rq.unit /\ rq.op \in {"create", "update", "delete"}
             /\ env.requireAuth = "true"
             /\ ~rq.hdr /\ rq.token = "none"
             /\ sessions[c] # None /\ Val(sessions[c]) # "")
            => st.resp.status # 401 /\ "controller" \in st.ran

\* C12: a PUT (with a body the validators of the route accept) or a DELETE
\* through the router, past the gate, for a well-formed id that no stored book
\* has, is answered 404 'Book not found' and leaves books and authors as they
\* were.  The plain controller validates the update before it looks for the
\* book, so for it the body is also valid for the schema.
C12_UnknownBookNotFound ==
    \A c \in Clients :
        LET st == reqs[c]
            rq == st.req
        IN  (/\ Finished(c) /\ st.alone /\ ~rq.unit
             /\ rq.op \in {"update", "delete"}
             /\ IsAuthenticated(env, rq.hdr, rq.token) = "next"
             /\ IsMongoId(rq.id) /\ rq.id \notin DOMAIN st.preBooks
             /\ rq.op = "update"
                  => /\ RouteErrors(rq) = {}
                     /\ Tracked \/ UpdateErrors(SanitizeBook(rq.body), env) = {})
            => /\ st.resp.status = 404
               /\ st.resp.error = "Book not found"
               /\ StoreAsBefore(c)

\* C12 witness: a PUT for the well-formed id of no book was answered 404
C12_Witness ==
    /\ reqs["c1"].pc = "done" /\ reqs["c1"].req.op = "update"
    /\ reqs["c1"].req.id = "b9" /\ reqs["c1"].resp.status = 404
    /\ reqs["c1"].resp.error = "Book not found"

\* C13: POST /books through the router, past the gate, with the tracking
\* controller: the answer is 201 exactly when the body passes the validators of
\* the route and of the schema, the author exists and no stored book has the
\* ISBN.  Then exactly one book is added, built from the body, and the answer
\* carries it as a lookup by its id returns it.  Otherwise the answer is 400 and
\* the books are as before.
C13_CreateAnswer ==
    \A c \in Clients :
        LET st == reqs[c]
            rq == st.req
            body == SanitizeBook(rq.body)
            accepted == /\ ValidateBookErrors(rq.body) = {}
                        /\ CreateErrors(body, env) = {}
                        /\ Val(body.author) \in DOMAIN st.preAuthors
                        /\ ~HoldsIsbn(st.preBooks, Val(body.isbn))
            added == DOMAIN books \ DOMAIN st.preBooks
        IN  (/\ Finished(c) /\ st.alone /\ ~rq.unit /\ rq.op = "create" /\ Tracked
             /\ IsAuthenticated(env, rq.hdr, rq.token) = "next")
            => IF accepted
               THEN /\ st.resp.status = 201
                    /\ Cardinality(added) = 1
                    /\ \A id \in added :
                          /\ books[id].doc = NewBook(body)
                          /\ st.resp.data = <<[id |-> id, book |-> books[id]]>>
                    /\ \A id \in DOMAIN st.preBooks :
                          id \in DOMAIN books /\ books[id] = st.preBooks[id]
               ELSE st.resp.status = 400 /\ books = st.preBooks

\* C13 witness: a POST was answered 201 for a book that the store then holds, and
\* the next request, a GET with the new id, was answered 200 with that book
C13_Witness ==
    /\ reqs["c1"].pc = "done" /\ reqs["c1"].req.op = "get"
    /\ reqs["c1"].req.id \notin DOMAIN SeedBooks(0)
    /\ reqs["c1"].resp.status = 200
    /\ reqs["c1"].resp.data = <<[id |-> reqs["c1"].req.id, book |-> books[reqs["c1"].req.id]]>>
    /\ books[reqs["c1"].req.id].doc.isbn = Some(IsbnDune)
    /\ Tracked

\* C14: GET /health is answered 200 and the body reports the state of the
\* database connection: 'disconnected', 'connected', 'connecting' or
\* 'disconnecting' for readyState 0, 1, 2 or 3, and 'unknown' for any other.
C14_HealthReportsDatabase ==
    \A c \in Clients :
        LET st == reqs[c]
            r == st.req.ready
            state == IF r = 0 THEN "disconnected" ELSE IF r = 1 THEN "connected"
                     ELSE IF r = 2 THEN "connecting" ELSE IF r = 3 THEN "disconnecting"
                     ELSE "unknown"
        IN  (Finished(c) /\ st.req.op = "health")
            => st.resp.status = 200 /\ st.resp.database = <<state>>

\* C15: GET /authors is answered 200 with every stored author exactly once, no
\* author after one whose lastName is greater, count equal to the number of
\* authors in the answer, and books and authors as before.
C15_AuthorsByLastName ==
    \A c \in Clients :
        LET st == reqs[c]
            data == st.resp.data
        IN  (Finished(c) /\ st.alone /\ st.req.op = "authors")
            => /\ st.resp.status = 200
               /\ {data[i].id : i \in 1..Len(data)} = DOMAIN st.preAuthors
               /\ Len(data) = Cardinality(DOMAIN st.preAuthors)
               /\ \A i \in 1..Len(data) : data[i].author = st.preAuthors[data[i].id]
               /\ \A i, j \in 1..Len(data) :
                     i < j => ~Before(data[j].author.lastName, data[i].author.lastName)
               /\ st.resp.count = Len(data)
               /\ StoreAsBefore(c)

\* C15 witness: the two seeded authors were listed, Fitzgerald before Lee
C15_Witness ==
    \E c \in Clients :
        /\ Finished(c) /\ reqs[c].req.op = "authors"
        /\ Len(reqs[c].resp.data) = 2
        /\ reqs[c].resp.data[1].author.lastName = Fitzgerald
        /\ reqs[c].resp.data[2].author.lastName = Lee

\* an error that has none of the names and messages the error handler looks
\* for and carries no status of its own
Unrecognized(err) ==
    /\ err.name \notin {"ValidationError", "CastError", "MongoError", "MongoServerError",
                        "SessionError"}
    /\ err.message # "Not allowed by CORS"
    /\ err.status = 0

\* C16: the global error handler answers 400 to a validation error, 400 to a
\* cast error, 400 to a duplicate-key error (code 11000) and 500 to an error it
\* does not recognize.
C16_ErrorsTranslated ==
    \A c \in Clients :
        LET st == reqs[c]
            err == st.req.err
        IN  (Finished(c) /\ st.req.op = "error")
            => /\ err.name = "ValidationError" => st.resp.status = 400
               /\ err.name = "CastError" => st.resp.status = 400
               /\ err.code = 11000 => st.resp.status = 400
               /\ Unrecognized(err) => st.resp.status = 500

\* C17 as stated: for an unrecognized error the answer of the global error
\* handler carries the stack exactly when NODE_ENV is not 'production', an
\* unset NODE_ENV included.
C17_StackOutsideProduction ==
    \A c \in Clients :
        (Finished(c) /\ reqs[c].req.op = "error" /\ Unrecognized(reqs[c].req.err))
            => (reqs[c].resp.stack <=> env.nodeEnv # "production")

\* C17: for an unrecognized error the answer of the global error handler carries
\* the stack exactly when NODE_ENV is 'development'; it never does when NODE_ENV
\* is 'production', and it does not when NODE_ENV is unset or has another value.
C17_StackInDevelopmentOnly ==
    \A c \in Clients :
        (Finished(c) /\ reqs[c].req.op = "error" /\ Unrecognized(reqs[c].req.err))
            => /\ reqs[c].resp.stack <=> env.nodeEnv = "development"
               /\ env.nodeEnv \in {"production", "unset", "test"} => ~reqs[c].resp.stack

\* C17 witness: an unrecognized error was answered with its stack under
\* NODE_ENV = 'development'
C17_Witness ==
    \E c \in Clients :
        /\ Finished(c) /\ reqs[c].req.op = "error" /\ reqs[c].req.err = ErrPlain
        /\ env.nodeEnv = "development"
        /\ reqs[c].resp.status = 500 /\ reqs[c].resp.stack

\* s contains q, letter case aside
ContainsFolded(s, q) ==
    \E k \in 0..(Len(s) - Len(q)) : \A i \in 1..Len(q) : Fold(q[i]) = Fold(s[k + i])

\* the value of the searched field of a stored book, as characters
Searched(b, field) ==
    IF field = "genre" THEN Spell(Val(b.doc.genre))
    ELSE IF field = "isbn" THEN Val(b.doc.isbn)
    ELSE Val(b.doc.title)

\* a query in which no character has a meaning in a regular expression
Literal(q) == \A i \in 1..Len(q) : q[i] \notin {".", "("}

\* C18: searchBooks without q answers 400; with a q of literal characters and
\* field title, genre or isbn (any other field but authorName counting as title)
\* it answers 200 with exactly the stored books whose value of that field
\* contains q, letter case aside.
C18_SearchBySubstring ==
    \A c \in Clients :
        LET st == reqs[c]
            rq == st.req
            field == IF rq.field = None THEN "title" ELSE Val(rq.field)
            data == st.resp.data
        IN  (/\ Finished(c) /\ st.alone /\ rq.op = "search" /\ field # "authorName"
             /\ rq.q # None => Literal(Val(rq.q)))
            => IF rq.q = None \/ rq.q = <<<<>>>>
               THEN st.resp.status = 400
               ELSE /\ st.resp.status = 200
                    /\ {data[i].id : i \in 1..Len(data)}
                         = {id \in DOMAIN st.preBooks :
                               ContainsFolded(Searched(st.preBooks[id], field), Val(rq.q))}

\* C19: GET /auth/demo/current is answered 200 with user id u when the last
\* login or logout that succeeded on the caller's session was a login with
\* userId u ('demo-user-123' when the login gave none), and 401 when there was
\* none or the last one was a logout.
C19_CurrentFollowsLastLogin ==
    \A c \in Clients :
        LET st == reqs[c]
            last == lastAuth[c]
            given == last[1].userId
            u == IF given = None \/ given = <<"">> THEN "demo-user-123" ELSE given[1]
        IN  (Finished(c) /\ st.req.op = "current")
            => IF last # None /\ last[1].op = "login"
               THEN st.resp.status = 200 /\ st.resp.user = <<u>>
               ELSE st.resp.status = 401

\* C19 witness: the third request of a run asked for the current user after a
\* logout that succeeded, and the answer was 401
C19_Witness ==
    \E c \in Clients :
        /\ Finished(c) /\ reqs[c].req.op = "current" /\ reqs[c].resp.status = 401
        /\ lastAuth[c] # None /\ lastAuth[c][1].op = "logout"
        /\ issued = 3

\* C20: GET /books/my-books is handled by the my-books handler and not by the
\* handler of GET /books/:id; the answer is 401 when REQUIRE_AUTH = 'true' and
\* the caller is not authenticated, and 200 otherwise.
C20_MyBooksRouted ==
    \A c \in Clients :
        LET st == reqs[c]
            rq == st.req
            refused == env.requireAuth = "true" /\ ~rq.hdr /\ rq.token # "good"
        IN  (Finished(c) /\ ~rq.unit /\ rq.op = "get" /\ rq.id = "my-books")
            => /\ "getBookById" \notin st.ran
               /\ st.resp.status = IF refused THEN 401 ELSE 200
               /\ ~refused => "myBooks" \in st.ran

\* the values of coverImageUrl the API documents as accepted
CoverAccepted(v) ==
    \/ v = <<>>
    \/ Len(v) >= 1 /\ v[1] = "/"
    \/ Len(v) >= 7 /\ SubSeq(v, 1, 7) = <<"h", "t", "t", "p", ":", "/", "/">>
    \/ Len(v) >= 8 /\ SubSeq(v, 1, 8) = <<"h", "t", "t", "p", "s", ":", "/", "/">>

\* C21: a POST /books, or a PUT to a stored book, through the router and past
\* the gate, whose other fields are valid, whose author exists and whose ISBN no
\* other book has: when coverImageUrl is empty, starts with '/' or starts with
\* 'http://' or 'https://' the request succeeds (201 or 200) and the book is
\* stored with that coverImageUrl; with any other coverImageUrl it is answered 400.
C21_CoverImageUrlAccepted ==
    \A c \in Clients :
        LET st == reqs[c]
            rq == st.req
            rest == [rq.body EXCEPT !.coverImageUrl = None]
            v == Val(rq.body.coverImageUrl)
            target == IF rq.op = "create" THEN DOMAIN books \ DOMAIN st.preBooks ELSE {rq.id}
        IN  (/\ Finished(c) /\ st.alone /\ ~rq.unit /\ rq.op \in {"create", "update"}
             /\ IsAuthenticated(env, rq.hdr, rq.token) = "next"
             /\ IsSome(rq.body.coverImageUrl)
             /\ ValidateBookErrors(rest) = {}
             /\ rq.op = "create" => CreateErrors(rest, env) = {}
             /\ rq.op = "update" => rq.id \in DOMAIN st.preBooks /\ UpdateErrors(rest, env) = {}
             /\ Val(rq.body.author) \in DOMAIN st.preAuthors
             /\ \A id \in DOMAIN st.preBooks \ {rq.id} :
                   st.preBooks[id].doc.isbn # rq.body.isbn)
            => IF CoverAccepted(v)
               THEN /\ st.resp.status = IF rq.op = "create" THEN 201 ELSE 200
                    /\ target # {}
                    /\ \A id \in target :
                          id \in DOMAIN books /\ books[id].doc.coverImageUrl = Some(v)
               ELSE st.resp.status = 400

\* C22: after a PUT answered 200 that changed the author of a stored book from a1
\* to another stored author a2, with no other request overlapping, a1's
\* bookCount is one less than before the request, a2's is one more and every
\* other author's bookCount is as before.
C22_ReassignmentMovesCount ==
    \A c \in Clients :
        LET st == reqs[c]
            id == st.req.id
            a1 == Val(st.preBooks[id].doc.author)
            a2 == Val(st.req.body.author)
        IN  (/\ Finished(c) /\ st.alone
             /\ st.req.op = "update" /\ Tracked /\ st.resp.status = 200
             /\ id \in DOMAIN st.preBooks
             /\ IsSome(st.req.body.author) /\ a2 \in DOMAIN st.preAuthors /\ a1 # a2)
            => /\ CountOf(authors, a1) = CountOf(st.preAuthors, a1) - 1
               /\ CountOf(authors, a2) = CountOf(st.preAuthors, a2) + 1
               /\ \A x \in DOMAIN authors \ {a1, a2} :
                     authors[x].bookCount = st.preAuthors[x].bookCount

\* the two requests overlapped, both were answered 200, one was a DELETE of the
\* book id and the other a DELETE of it or a PUT giving it the author a
RacedOn(id, a) ==
    /\ \A c \in Clients : Finished(c) /\ ~reqs[c].alone /\ reqs[c].resp.status = 200
                          /\ reqs[c].req.id = id
    /\ \E c \in Clients : reqs[c].req.op = "delete"
    /\ \A c \in Clients :
          \/ reqs[c].req.op = "delete"
          \/ reqs[c].req.op = "update" /\ reqs[c].req.body.author = Some(a)

\* when the request of c arrived every Author held a bookCount equal to the
\* number of books that referenced it
CountsAgreedBefore(c) ==
    \A a \in DOMAIN reqs[c].preAuthors :
        reqs[c].preAuthors[a].bookCount = {BooksOf(reqs[c].preBooks, a)}

\* C23: when every Author's bookCount was equal to the number of books that
\* reference it as each of two overlapping requests on the same book arrived
\* (two DELETEs, or a PUT moving it to another author and a DELETE), once both
\* have been answered 200 some author's bookCount differs from the number of
\* stored books that reference that author.
C23_CountsDriftAfterRace ==
    (RacedOn("b1", "a2") /\ \A c \in Clients : CountsAgreedBefore(c))
        => \E a \in DOMAIN authors : authors[a].bookCount # {BooksOf(books, a)}

\* C23 witness: a PUT moving a book to another author and a DELETE of that book
\* interleaved, both were answered 200, and the first author's bookCount is not
\* the number of books that reference that author
C23_Witness ==
    /\ RacedOn("b1", "a2") /\ \A c \in Clients : CountsAgreedBefore(c)
    /\ \E c \in Clients : reqs[c].req.op = "update"
    /\ authors["a1"].bookCount # {BooksOf(books, "a1")}

\* C24: after a PUT answered 200, with no other request overlapping, the book of
\* the request holds the body's value in every field the body gives and its old
\* value in every other field, every other book is as before the request and the
\* stored books are the same ones; when the body's author is the book's author
\* no author's bookCount has changed.
C24_UpdateTouchesOneBook ==
    \A c \in Clients :
        LET st == reqs[c]
            rq == st.req
            id == rq.id
            sent == SanitizeBook(rq.body)
        IN  (Finished(c) /\ st.alone /\ rq.op = "update" /\ st.resp.status = 200)
            => /\ id \in DOMAIN st.preBooks
               /\ DOMAIN books = DOMAIN st.preBooks
               /\ \A x \in DOMAIN books \ {id} : books[x] = st.preBooks[x]
               /\ books[id].createdAt = st.preBooks[id].createdAt
               /\ \A f \in BodyFields :
                     books[id].doc[f] = IF IsSome(sent[f]) THEN sent[f]
                                        ELSE st.preBooks[id].doc[f]
               /\ rq.body.author = st.preBooks[id].doc.author
                     => \A a \in DOMAIN authors :
                           authors[a].bookCount = st.preAuthors[a].bookCount

\* C24 witness: a PUT that kept the author of a stored book gave it a new title,
\* and the other stored book is as it was
C24_Witness ==
    \E c \in Clients :
        LET st == reqs[c]
        IN  /\ Finished(c) /\ st.req.op = "update" /\ st.req.id = "b1"
            /\ st.resp.status = 200
            /\ st.req.body.author = st.preBooks["b1"].doc.author
            /\ st.preBooks["b1"].doc.title = Some(Gatsby)
            /\ books["b1"].doc.title = Some(Dune)
            /\ books["b1"].doc.language = Some(English)
            /\ "b2" \in DOMAIN books /\ books["b2"] = st.preBooks["b2"]

\* two overlapping creates with the same ISBN, hyphens and spaces aside, and the
\* same stored author, both answered
TwinCreates ==
    /\ \A c \in Clients : /\ Finished(c) /\ ~reqs[c].alone /\ reqs[c].req.op = "create"
                          /\ IsSome(reqs[c].req.body.isbn)
                          /\ IsSome(reqs[c].req.body.author)
    /\ \A c, d \in Clients :
          /\ Unseparated(Val(reqs[c].req.body.isbn)) = Unseparated(Val(reqs[d].req.body.isbn))
          /\ reqs[c].req.body.author = reqs[d].req.body.author
    /\ \A c \in Clients : Val(reqs[c].req.body.author) \in DOMAIN authors

Created == {c \in Clients : reqs[c].resp.status = 201}

\* the Author documents the run started with
StartAuthors == IF env.counted THEN CountedAuthors ELSE SeedAuthors

\* what C25 says of the books: at most one of the two creates is answered 201
\* and one book holds the ISBN
C25_OneBookStored ==
    TwinCreates
        => /\ Cardinality(Created) <= 1
           /\ \A c \in Clients :
                 Cardinality({id \in DOMAIN books :
                     books[id].doc.isbn = Some(Unseparated(Val(reqs[c].req.body.isbn)))}) = 1

\* C25: after two overlapping POST /books with the same ISBN and the same stored
\* author, at most one was answered 201, exactly one stored book has that ISBN,
\* and the author's bookCount is higher than at the start by the number of
\* requests answered 201.
C25_TwinCreatesCounted ==
    TwinCreates
        => /\ C25_OneBookStored
           /\ \A c \in Clients :
                 LET a == Val(reqs[c].req.body.author)
                 IN  CountOf(authors, a) = CountOf(StartAuthors, a) + Cardinality(Created)

\* updateBook of the tracking controller has found its book and is about to
\* write, and the book is no longer stored
WriteFindsBookGone(c) ==
    /\ Tracked /\ reqs[c].req.op = "update" /\ reqs[c].pc = "update"
    /\ reqs[c].found # <<>>
    /\ reqs[c].req.id \notin DOMAIN books

\* C26: when the book of a PUT was deleted by an overlapping DELETE after
\* updateBook's existence check and before its update write, the write is
\* followed at once by the answer 404, and no author's bookCount changes.
C26_UpdateOfDeletedBook ==
    [][\A c \in Clients :
          (WriteFindsBookGone(c) /\ reqs'[c].pc # "update")
              => /\ reqs'[c].pc = "done"
                 /\ reqs'[c].resp.status = 404
                 /\ authors' = authors]_vars

\* C27: with REQUIRE_AUTH = 'true', a POST /books sent with the x-demo-user
\* header, whose body gives no user and passes the validators of the route and
\* of the schema on every other field, names a stored author and has an ISBN no
\* stored book has, is answered 201 and a book with that ISBN is stored.
C27_CreateWithoutUserField ==
    \A c \in Clients :
        LET st == reqs[c]
            rq == st.req
        IN  (/\ Finished(c) /\ st.alone /\ ~rq.unit /\ rq.op = "create"
             /\ env.requireAuth = "true" /\ rq.hdr
             /\ rq.body.user = None
             /\ ValidateBookErrors(rq.body) = {}
             /\ CreateErrors(SanitizeBook(rq.body), env) \subseteq {"user"}
             /\ Val(rq.body.author) \in DOMAIN st.preAuthors
             /\ ~HoldsIsbn(st.preBooks, Val(rq.body.isbn)))
            => /\ st.resp.status = 201
               /\ \E id \in DOMAIN books \ DOMAIN st.preBooks :
                     books[id].doc.isbn = rq.body.isbn

\* C28: for a POST, PUT or DELETE through the router with no bearer token, under
\* every value of REQUIRE_AUTH and NODE_ENV and with or without the x-demo-user
\* header, the gate of the router lets the request through exactly when the
\* isAuthenticated of the auth module does and exactly when the fallback
\* isAuthenticated of the books route file does.
C28_GatesAgree ==
    \A c \in Clients :
        LET st == reqs[c]
            rq == st.req
            passed == st.resp.status # 401
        IN  (Finished(c) /\ ~rq.unit /\ rq.op \in {"create", "update", "delete"}
             /\ rq.token = "none")
            => /\ passed <=> ModuleGate(env, rq.hdr, "none") = "next"
               /\ passed <=> FallbackGate(env, DemoUser(rq.hdr)) = "next"

\* the ids of the books an answer carries
IdsIn(data) == {data[i].id : i \in 1..Len(data)}

\* C29: two answers of the paginated getAllBooks for the same filter and the same
\* limit l on the same unchanged store: a page before totalPages has exactly l
\* books, a page beyond totalPages has none, no book is on a page twice, two
\* different pages have no book in common, and when the answers are for all
\* the pages 1..totalPages they hold every matching book.
C29_PagesPartition ==
    \A c, d \in Clients :
        LET sc == reqs[c]
            sd == reqs[d]
            l == IF sc.req.limit = None THEN DefaultLimit ELSE Val(sc.req.limit)
            pc == IF sc.req.page = None THEN DefaultPage ELSE Val(sc.req.page)
            pd == IF sd.req.page = None THEN DefaultPage ELSE Val(sd.req.page)
            ids == {id \in DOMAIN books :
                       /\ IsSome(sc.req.genre) => books[id].doc.genre = sc.req.genre
                       /\ IsSome(sc.req.author) => books[id].doc.author = sc.req.author}
            T == sc.resp.totalPages
        IN  (/\ Tracked /\ Finished(c) /\ Finished(d)
             /\ sc.req.op = "list" /\ sd.req.op = "list"
             /\ sc.req.limit = sd.req.limit /\ l > 0
             /\ sc.req.genre = sd.req.genre /\ sc.req.author = sd.req.author
             /\ books = sc.preBooks /\ books = sd.preBooks)
            => /\ sd.resp.totalPages = T
               /\ pc < T => Len(sc.resp.data) = l
               /\ pc > T => sc.resp.data = <<>>
               /\ Cardinality(IdsIn(sc.resp.data)) = Len(sc.resp.data)
               /\ pc # pd => IdsIn(sc.resp.data) \cap IdsIn(sd.resp.data) = {}
               /\ {pc, pd} = 1..T => IdsIn(sc.resp.data) \cup IdsIn(sd.resp.data) = ids

\* C30: when createBook, updateBook or deleteBook of the tracking controller has
\* answered 400, 404 or 500, with no other request overlapping and also when
\* one of its database calls was rejected, books and authors are as before the
\* request.
C30_FailedWritesLeaveStore ==
    \A c \in Clients :
        LET st == reqs[c]
        IN  (/\ Finished(c) /\ st.alone /\ Tracked
             /\ st.req.op \in {"create", "update", "delete"}
             /\ st.resp.status \in {400, 404, 500})
            => books = st.preBooks /\ authors = st.preAuthors

====
